---- MODULE Spec2Model ----
(***************************************************************************)
(* AES-GCM-SIV (RFC 8452) as implemented in aes-gcm-siv/src/lib.rs.        *)
(*                                                                         *)
(* The AEAD object holds one key.  Every encrypt/decrypt call builds a     *)
(* Cipher session (Cipher::new), runs encrypt_in_place / decrypt_in_place  *)
(* and drops the session.  The block cipher and POLYVAL come from other    *)
(* crates; they are modelled as fixed deterministic functions on 16-byte   *)
(* blocks (AesEncryptBlock, PolyvalMul).                                   *)
(*                                                                         *)
(* Bytes are 0..255, byte strings are sequences.  TLC integers are 32 bit, *)
(* so a u32 is kept as two 16-bit halves and a u64 length as two limbs of  *)
(* 24 bits (enough for every length near 2^36).                            *)
(***************************************************************************)
EXTENDS Integers, Sequences, FiniteSets, TLC

(***************************************************************************)
(* State: the AEAD object, and a record of its last call.                  *)
(***************************************************************************)
VARIABLES
    aead,       \* the AEAD object: [variant, key]
    call,       \* the last call and its inputs
    res,        \* what the last call returned
    buf,        \* the buffer decrypt_in_place worked on, after it returned
    obs,        \* what the last call did inside its session
    lastEnc,    \* this object's last successful encrypt of written-out bytes
    repeat      \* set by an encrypt that repeats lastEnc's inputs

vars == <<aead, call, res, buf, obs, lastEnc, repeat>>

(***************************************************************************)
(* Bounds of the model.                                                    *)
(***************************************************************************)
\* longest message / buffer whose bytes are written out (2 blocks + 1 byte)
MaxLen == 33

(***************************************************************************)
(* Program constants.                                                      *)
(***************************************************************************)
\* C::BlockSize (U16)
block_size == 16
\* <Polyval as UniversalHash>::OutputSize, Aead::TagSize (U16)
tag_size == 16
\* Aead::NonceSize (U12)
nonce_size == 12

(***************************************************************************)
(* u64 values as two limbs: value = hi * 2^24 + lo, 0 <= lo < 2^24.        *)
(***************************************************************************)
Limb == 2^24

U64(n) == [hi |-> n \div Limb, lo |-> n % Limb]

U64Add(w, d) == [hi |-> w.hi + ((w.lo + d) \div Limb), lo |-> (w.lo + d) % Limb]

U64Gt(a, b) == a.hi > b.hi \/ (a.hi = b.hi /\ a.lo > b.lo)

U64Lt(a, b) == U64Gt(b, a)

\* a - b for a >= b
U64Sub(a, b) ==
    IF a.lo >= b.lo THEN [hi |-> a.hi - b.hi, lo |-> a.lo - b.lo]
    ELSE [hi |-> a.hi - b.hi - 1, lo |-> a.lo + Limb - b.lo]

\* 1 << 36
A_MAX == [hi |-> 2^12, lo |-> 0]

P_MAX == [hi |-> 2^12, lo |-> 0]

\* (1 << 36) + 16
C_MAX == [hi |-> 2^12, lo |-> 16]

(***************************************************************************)
(* Bytes and blocks.                                                       *)
(***************************************************************************)
Min(a, b) == IF a < b THEN a ELSE b

Bit(a, k) == (a \div k) % 2

XorBit(x, y) == (x + y) % 2

XorNibble ==
    [a \in 0..15 |-> [b \in 0..15 |->
        XorBit(Bit(a, 1), Bit(b, 1)) + 2 * XorBit(Bit(a, 2), Bit(b, 2))
        + 4 * XorBit(Bit(a, 4), Bit(b, 4)) + 8 * XorBit(Bit(a, 8), Bit(b, 8))]]

\* a ^ b on u8
XorByte(a, b) == 16 * XorNibble[a \div 16][b \div 16] + XorNibble[(a % 16)][(b % 16)]

\* b & 0x7f
And7F(b) == b % 128

\* the top bit left as it is
Or80_skipped(b) == b

\* b | 0x80
Or80(b) == IF b >= 128 THEN b ELSE b + 128

\* GenericArray::default()
ZeroBlock == [i \in 1..block_size |-> 0]

\* slice[from..to] with Rust's 0-based, end-exclusive indices
Slice(s, from, to) == [i \in 1..(to - from) |-> s[from + i]]

\* a ^ b on byte strings of equal length
XorBytes(a, b) == [i \in 1..Len(a) |-> XorByte(a[i], b[i])]

(***************************************************************************)
(* u32 as two 16-bit halves: value = hi * 2^16 + lo.                       *)
(***************************************************************************)
Half == 2^16

\* u32::from_le_bytes
from_le_bytes(b) == [lo |-> b[1] + 256 * b[2], hi |-> b[3] + 256 * b[4]]

\* wrapping_add with the carry into the high half lost
wrapping_add_low_half(c, n) == [lo |-> (c.lo + n) % Half, hi |-> c.hi]

\* u32::wrapping_add
wrapping_add(c, n) ==
    [lo |-> (c.lo + n) % Half, hi |-> (c.hi + ((c.lo + n) \div Half)) % Half]

\* u32::to_le_bytes
to_le_bytes(c) == <<c.lo % 256, c.lo \div 256, c.hi % 256, c.hi \div 256>>

\* (len as u64) * 8
U64Mul8(w) == [hi |-> w.hi * 8 + ((w.lo * 8) \div Limb), lo |-> (w.lo * 8) % Limb]

\* u64::to_le_bytes
U64ToLeBytes(w) ==
    << w.lo % 256, (w.lo \div 256) % 256, w.lo \div 65536,
       w.hi % 256, (w.hi \div 256) % 256, (w.hi \div 65536) % 256,
       (w.hi \div Limb) % 256, 0 >>

(***************************************************************************)
(* The block cipher (aes crate): a keyed permutation of 16-byte blocks.    *)
(* One chained pass per 16 bytes of key; each pass is invertible.          *)
(***************************************************************************)
RECURSIVE AesPass(_, _, _, _)
AesPass(rk, block, i, prev) ==
    IF i > block_size THEN <<>>
    ELSE LET o == (167 * XorByte(block[i], rk[i]) + prev + 29 * i) % 256
         IN  <<o>> \o AesPass(rk, block, i + 1, o)

RECURSIVE AesRounds(_, _, _)
AesRounds(key, block, r) ==
    IF r * block_size >= Len(key) THEN block
    ELSE LET rk == Slice(key, r * block_size, (r + 1) * block_size)
         IN  AesRounds(key, AesPass(rk, block, 1, rk[block_size]), r + 1)

\* BlockCipher::encrypt_block
AesEncryptBlock(key, block) == AesRounds(key, block, 0)

(***************************************************************************)
(* POLYVAL (polyval crate): key h, accumulator s.                          *)
(***************************************************************************)
RECURSIVE PolyvalMulFrom(_, _, _, _)
PolyvalMulFrom(h, x, i, prev) ==
    IF i > block_size THEN <<>>
    ELSE LET o == ((x[i] + 1) * (2 * h[i] + 1) + prev + x[block_size + 1 - i]) % 256
         IN  <<o>> \o PolyvalMulFrom(h, x, i + 1, o)

PolyvalMul(h, x) == PolyvalMulFrom(h, x, 1, h[1])

\* Polyval::new
PolyvalNew(h) == [h |-> h, s |-> ZeroBlock]

\* UniversalHash::update_block
update_block(pv, block) == [pv EXCEPT !.s = PolyvalMul(pv.h, XorBytes(pv.s, block))]

\* UniversalHash::update_padded: full blocks, then the rest padded with zeros
RECURSIVE update_padded(_, _)
update_padded(pv, data) ==
    IF Len(data) = 0 THEN pv
    ELSE IF Len(data) >= block_size
         THEN update_padded(update_block(pv, Slice(data, 0, block_size)),
                            Slice(data, block_size, Len(data)))
         ELSE update_block(pv, data \o Slice(ZeroBlock, 0, block_size - Len(data)))

\* UniversalHash::result_reset: the output, and the hasher back in its initial state
result_reset(pv) == [out |-> pv.s, pv |-> [pv EXCEPT !.s = ZeroBlock]]

(***************************************************************************)
(* Cipher: the per-call session { enc_cipher, polyval, nonce }.            *)
(***************************************************************************)
\* C::KeySize, in bytes
KeySize(variant) == IF variant = "Aes128" THEN 16 ELSE 32

\* the counter started at 1
counter_init_one == [lo |-> 1, hi |-> 0]

\* 0u32
counter_init == [lo |-> 0, hi |-> 0]

\* Cipher::new, the loop over derived_key.chunks_mut(8): one block of the
\* key-generating key per 8 bytes of derived key
RECURSIVE derive_key(_, _, _, _)
derive_key(key_generating_key, nonce, nchunks, counter) ==
    IF nchunks = 0
    THEN [key |-> <<>>, counter |-> counter, blocks |-> <<>>]
    ELSE LET block == to_le_bytes(counter) \o nonce
             out   == AesEncryptBlock(key_generating_key, block)
             rest  == derive_key(key_generating_key, nonce, nchunks - 1,
                                 wrapping_add(counter, 1))
         IN  [key     |-> Slice(out, 0, 8) \o rest.key,
              counter |-> rest.counter,
              blocks  |-> <<block>> \o rest.blocks]

\* Cipher::new with the counter carried over from the previous session
CipherNew_stale_counter(variant, key, nonce) ==
    LET start == [lo |-> Len(obs.kgk_blocks), hi |-> 0]
        mac == derive_key(key, nonce, block_size \div 8, start)
        enc == derive_key(key, nonce, KeySize(variant) \div 8, mac.counter)
    IN  [enc_cipher |-> enc.key,
         polyval    |-> PolyvalNew(mac.key),
         nonce      |-> nonce,
         kgk_blocks |-> mac.blocks \o enc.blocks]

\* Cipher::new: mac_key first, then enc_key, one running counter
CipherNew(variant, key, nonce) ==
    LET mac == derive_key(key, nonce, block_size \div 8, counter_init)
        enc == derive_key(key, nonce, KeySize(variant) \div 8, mac.counter)
    IN  [enc_cipher |-> enc.key,
         polyval    |-> PolyvalNew(mac.key),
         nonce      |-> nonce,
         kgk_blocks |-> mac.blocks \o enc.blocks]

\* Cipher::compute_tag
compute_tag(self, buffer, associated_data) ==
    LET pv1 == update_padded(self.polyval, associated_data)
        pv2 == update_padded(pv1, buffer)
        associated_data_len == U64Mul8(U64(Len(associated_data)))
        buffer_len == U64Mul8(U64(Len(buffer)))
        block == U64ToLeBytes(associated_data_len) \o U64ToLeBytes(buffer_len)
        r == result_reset(update_block(pv2, block))
        xored == [i \in 1..block_size |->
                    IF i <= nonce_size THEN XorByte(r.out[i], self.nonce[i])
                    ELSE r.out[i]]
        masked == [xored EXCEPT ![block_size] = And7F(@)]
    IN  [self   |-> [self EXCEPT !.polyval = r.pv],
         tag    |-> AesEncryptBlock(self.enc_cipher, masked),
         aes_in |-> masked]

\* Cipher::ctr32le, the loop over buffer.chunks_mut(16)
RECURSIVE ctr32le_chunks(_, _, _)
ctr32le_chunks(enc_cipher, counter_block, buffer) ==
    IF Len(buffer) = 0
    THEN [buffer |-> <<>>, blocks |-> <<>>]
    ELSE LET n == Min(block_size, Len(buffer))
             chunk == Slice(buffer, 0, n)
             keystream_block == AesEncryptBlock(enc_cipher, counter_block)
             counter == wrapping_add(from_le_bytes(Slice(counter_block, 0, 4)), 1)
             next == to_le_bytes(counter) \o Slice(counter_block, 4, block_size)
             rest == ctr32le_chunks(enc_cipher, next, Slice(buffer, n, Len(buffer)))
         IN  [buffer |-> [i \in 1..n |-> XorByte(chunk[i], keystream_block[i])]
                         \o rest.buffer,
              blocks |-> <<counter_block>> \o rest.blocks]

\* Cipher::ctr32le: the pass, with what went in and out of it
ctr32le(self, counter_block, buffer) ==
    LET r == ctr32le_chunks(self.enc_cipher,
                            [counter_block EXCEPT ![block_size] = Or80(@)], buffer)
    IN  [buffer |-> r.buffer,
         pass   |-> [counter_block |-> counter_block, input |-> buffer,
                     output |-> r.buffer, blocks |-> r.blocks]]

\* the limits taken as exclusive
EncryptTooLong_inclusive(buffer_len, associated_data_len) ==
    ~U64Lt(buffer_len, P_MAX) \/ ~U64Lt(associated_data_len, A_MAX)

\* line 173: buffer.len() as u64 > P_MAX || associated_data.len() as u64 > A_MAX
EncryptTooLong(buffer_len, associated_data_len) ==
    U64Gt(buffer_len, P_MAX) \/ U64Gt(associated_data_len, A_MAX)

\* line 206: buffer.len() as u64 > C_MAX || associated_data.len() as u64 > A_MAX
DecryptTooLong(buffer_len, associated_data_len) ==
    U64Gt(buffer_len, C_MAX) \/ U64Gt(associated_data_len, A_MAX)

\* the length check off by one
DecryptTooShort_off_by_one(msg_len) == U64Lt(msg_len, U64(tag_size - 1))

\* line 186: payload.msg.len() < tag_size
DecryptTooShort(msg_len) == U64Lt(msg_len, U64(tag_size))

\* the comparison stopping one byte early
ct_eq_short(a, b) == IF \A i \in 1..(tag_size - 1) : a[i] = b[i] THEN 1 ELSE 0

\* subtle::ConstantTimeEq::ct_eq(..).unwrap_u8(): 1 iff all 16 bytes agree
ct_eq(a, b) == IF \A i \in 1..tag_size : a[i] = b[i] THEN 1 ELSE 0

\* what a call that stopped before touching the buffer has done
NoWork == [ops |-> <<>>, ctr |-> <<>>, tag_in |-> <<>>, expected_tag |-> <<>>]

\* Cipher::encrypt_in_place
encrypt_in_place(self, buffer, associated_data) ==
    IF EncryptTooLong(U64(Len(buffer)), U64(Len(associated_data)))
    THEN [ok |-> FALSE, buffer |-> buffer, tag |-> <<>>, work |-> NoWork]
    ELSE LET t == compute_tag(self, buffer, associated_data)
             c == ctr32le(t.self, t.tag, buffer)
         IN  [ok |-> TRUE, buffer |-> c.buffer, tag |-> t.tag,
              work |-> [ops |-> <<"compute_tag", "ctr32le">>,
                        ctr |-> <<c.pass>>, tag_in |-> <<t.aes_in>>,
                        expected_tag |-> <<>>]]

\* Cipher::encrypt
CipherEncrypt(self, msg, aad) ==
    LET r == encrypt_in_place(self, msg, aad)
    IN  IF r.ok THEN [ok |-> TRUE, out |-> r.buffer \o r.tag, work |-> r.work]
        ELSE [ok |-> FALSE, out |-> <<>>, work |-> r.work]

\* decrypt_in_place with the tag computed before the CTR pass
decrypt_in_place_tag_first(self, buffer, associated_data, tag) ==
    IF DecryptTooLong(U64(Len(buffer)), U64(Len(associated_data)))
    THEN [ok |-> FALSE, buffer |-> buffer, work |-> NoWork]
    ELSE LET t == compute_tag(self, buffer, associated_data)
             c == ctr32le(t.self, tag, buffer)
         IN  IF ct_eq(t.tag, tag) = 1
             THEN [ok |-> TRUE, buffer |-> c.buffer,
                   work |-> [ops |-> <<"compute_tag", "ctr32le">>,
                             ctr |-> <<c.pass>>, tag_in |-> <<t.aes_in>>,
                             expected_tag |-> t.tag]]
             ELSE [ok |-> FALSE, buffer |-> buffer,
                   work |-> [ops |-> <<"compute_tag">>,
                             ctr |-> <<>>, tag_in |-> <<t.aes_in>>,
                             expected_tag |-> t.tag]]

\* decrypt_in_place without the second CTR pass on a tag mismatch
decrypt_in_place_no_scrub(self, buffer, associated_data, tag) ==
    IF DecryptTooLong(U64(Len(buffer)), U64(Len(associated_data)))
    THEN [ok |-> FALSE, buffer |-> buffer, work |-> NoWork]
    ELSE LET c == ctr32le(self, tag, buffer)
             t == compute_tag(self, c.buffer, associated_data)
         IN  [ok |-> ct_eq(t.tag, tag) = 1, buffer |-> c.buffer,
              work |-> [ops |-> <<"ctr32le", "compute_tag">>,
                        ctr |-> <<c.pass>>, tag_in |-> <<t.aes_in>>,
                        expected_tag |-> t.tag]]

\* Cipher::decrypt_in_place
decrypt_in_place(self, buffer, associated_data, tag) ==
    IF DecryptTooLong(U64(Len(buffer)), U64(Len(associated_data)))
    THEN [ok |-> FALSE, buffer |-> buffer, work |-> NoWork]
    ELSE LET c == ctr32le(self, tag, buffer)
             t == compute_tag(self, c.buffer, associated_data)
         IN  IF ct_eq(t.tag, tag) = 1
             THEN [ok |-> TRUE, buffer |-> c.buffer,
                   work |-> [ops |-> <<"ctr32le", "compute_tag">>,
                             ctr |-> <<c.pass>>, tag_in |-> <<t.aes_in>>,
                             expected_tag |-> t.tag]]
             ELSE LET s == ctr32le(t.self, tag, c.buffer)
                  IN  [ok |-> FALSE, buffer |-> s.buffer,
                       work |-> [ops |-> <<"ctr32le", "compute_tag", "ctr32le">>,
                                 ctr |-> <<c.pass, s.pass>>,
                                 tag_in |-> <<t.aes_in>>,
                                 expected_tag |-> t.tag]]

\* Cipher::decrypt
CipherDecrypt(self, msg, aad) ==
    IF DecryptTooShort(U64(Len(msg)))
    THEN [ok |-> FALSE, out |-> <<>>, buffer |-> <<>>, tag_start |-> <<>>,
          work |-> NoWork]
    ELSE IF Len(msg) < tag_size
    \* usize subtraction below zero, or slicing past the end: the call panics
    THEN [ok |-> FALSE, out |-> <<>>, buffer |-> <<>>,
          tag_start |-> <<Len(msg) - tag_size>>,
          work |-> [NoWork EXCEPT !.ops = <<"split", "panic">>]]
    ELSE LET tag_start == Len(msg) - tag_size
             buffer == Slice(msg, 0, tag_start)
             tag == Slice(msg, tag_start, Len(msg))
             r == decrypt_in_place(self, buffer, aad, tag)
         IN  [ok |-> r.ok, out |-> IF r.ok THEN r.buffer ELSE <<>>,
              buffer |-> r.buffer, tag_start |-> <<tag_start>>,
              work |-> [r.work EXCEPT !.ops = <<"split">> \o @]]

(***************************************************************************)
(* The same call paths for inputs near 2^36 bytes.  Such buffers are not   *)
(* written out: only their lengths are kept, and whether the supplied tag  *)
(* authenticates the content is an input (tag_ok).                         *)
(***************************************************************************)
\* Cipher::encrypt / encrypt_in_place on lengths
EncryptLengths(msg_len, aad_len) ==
    IF EncryptTooLong(msg_len, aad_len)
    THEN [ok |-> FALSE, len |-> U64(0), tag_start |-> <<>>, ops |-> <<>>]
    ELSE [ok |-> TRUE, len |-> U64Add(msg_len, tag_size), tag_start |-> <<>>,
          ops |-> <<"compute_tag", "ctr32le">>]

\* Cipher::decrypt / decrypt_in_place on lengths
DecryptLengths(msg_len, aad_len, tag_ok) ==
    IF DecryptTooShort(msg_len)
    THEN [ok |-> FALSE, len |-> U64(0), tag_start |-> <<>>, ops |-> <<>>]
    ELSE IF U64Lt(msg_len, U64(tag_size))
    THEN [ok |-> FALSE, len |-> U64(0), tag_start |-> <<U64(0)>>,
          ops |-> <<"split", "panic">>]
    ELSE LET tag_start == U64Sub(msg_len, U64(tag_size))
         IN  IF DecryptTooLong(tag_start, aad_len)
             THEN [ok |-> FALSE, len |-> U64(0), tag_start |-> <<tag_start>>,
                   ops |-> <<"split">>]
             ELSE IF tag_ok
             THEN [ok |-> TRUE, len |-> tag_start, tag_start |-> <<tag_start>>,
                   ops |-> <<"split", "ctr32le", "compute_tag">>]
             ELSE [ok |-> FALSE, len |-> U64(0), tag_start |-> <<tag_start>>,
                   ops |-> <<"split", "ctr32le", "compute_tag", "ctr32le">>]

(***************************************************************************)
(* Inputs.                                                                 *)
(***************************************************************************)
\* a byte string of the given length
Bytes(seed, len) == [i \in 1..len |-> (seed * 37 + i * 11 + seed * i * i) % 256]

Objects ==
    { [variant |-> "Aes128", key |-> Bytes(1, KeySize("Aes128"))],
      [variant |-> "Aes256", key |-> Bytes(2, KeySize("Aes256"))] }

Nonces == { Bytes(3, nonce_size), Bytes(4, nonce_size) }

Aads == { <<>>, Bytes(5, block_size + 1) }

Msgs == { Bytes(6, n) : n \in {0, MaxLen} }

\* a tag whose 32-bit counter wraps to 0 after the first chunk; the top bit
\* of its last byte is clear
WrapTag == <<255, 255, 255, 255>> \o Bytes(7, nonce_size - 1) \o <<127>>

\* a tag whose counter carries out of its low 16 bits after the first chunk
CarryTag == <<255, 255, 0, 0>> \o Bytes(8, nonce_size - 1) \o <<3>>

FlipLast(s) == [s EXCEPT ![Len(s)] = XorByte(@, 1)]

NoEnc == [some |-> FALSE, aead |-> <<>>, nonce |-> <<>>, aad |-> <<>>,
          msg |-> <<>>, out |-> <<>>]

NoRepeat == [seen |-> FALSE, out |-> <<>>, after_failure |-> FALSE]

\* combined inputs a caller may hand to decrypt
Candidates ==
    (IF lastEnc.some THEN { lastEnc.out, FlipLast(lastEnc.out) } ELSE {})
    \cup { Bytes(9, tag_size - 1), <<>> }
    \cup { Bytes(10, MaxLen) \o WrapTag, Bytes(11, block_size + 1) \o CarryTag }

Call(op, nonce, aad, msg) ==
    [op |-> op, nonce |-> nonce, aad |-> aad, msg |-> msg,
     aad_len |-> U64(Len(aad)), msg_len |-> U64(Len(msg)), written |-> TRUE]

Obs(session, tag_start, work) ==
    [kgk_blocks |-> session.kgk_blocks, enc_cipher |-> session.enc_cipher,
     mac_key |-> session.polyval.h, tag_start |-> tag_start,
     ops |-> work.ops, ctr |-> work.ctr, tag_in |-> work.tag_in,
     expected_tag |-> work.expected_tag]

\* no session has been made yet
NoObs ==
    Obs([kgk_blocks |-> <<>>, enc_cipher |-> <<>>, polyval |-> [h |-> <<>>]],
        <<>>, NoWork)

Init ==
    /\ aead \in Objects
    /\ call = [op |-> "new"]
    /\ res = [ok |-> TRUE, out |-> <<>>, len |-> U64(0)]
    /\ buf = <<>>
    /\ obs = NoObs
    /\ lastEnc = NoEnc
    /\ repeat = NoRepeat

\* NewAead::new
New(object) ==
    /\ aead' = object
    /\ call' = [op |-> "new"]
    /\ res' = [ok |-> TRUE, out |-> <<>>, len |-> U64(0)]
    /\ buf' = <<>>
    /\ obs' = NoObs
    /\ lastEnc' = NoEnc
    /\ repeat' = NoRepeat

\* Aead::encrypt
Encrypt(nonce, aad, msg) ==
    \E session \in {CipherNew(aead.variant, aead.key, nonce)} :
    \E r \in {CipherEncrypt(session, msg, aad)} :
        /\ call' = Call("encrypt", nonce, aad, msg)
        /\ res' = [ok |-> r.ok, out |-> r.out, len |-> U64(Len(r.out))]
        /\ buf' = <<>>
        /\ obs' = Obs(session, <<>>, r.work)
        /\ repeat' = IF /\ lastEnc.some /\ lastEnc.aead = aead
                        /\ lastEnc.nonce = nonce /\ lastEnc.aad = aad
                        /\ lastEnc.msg = msg
                     THEN [seen |-> TRUE, out |-> lastEnc.out,
                           after_failure |-> ~res.ok]
                     ELSE NoRepeat
        /\ lastEnc' = IF r.ok
                      THEN [some |-> TRUE, aead |-> aead, nonce |-> nonce,
                            aad |-> aad, msg |-> msg, out |-> r.out]
                      ELSE lastEnc
        /\ UNCHANGED aead

\* Aead::decrypt
Decrypt(nonce, aad, msg) ==
    \E session \in {CipherNew(aead.variant, aead.key, nonce)} :
    \E r \in {CipherDecrypt(session, msg, aad)} :
        /\ call' = Call("decrypt", nonce, aad, msg)
        /\ res' = [ok |-> r.ok, out |-> r.out, len |-> U64(Len(r.out))]
        /\ buf' = r.buffer
        /\ obs' = Obs(session, r.tag_start, r.work)
        /\ repeat' = NoRepeat
        /\ UNCHANGED <<aead, lastEnc>>

\* the nonce of the calls whose buffers are not written out
NearMaxNonces == { Bytes(3, nonce_size) }

\* lengths 2^36 + d
NearMax(deltas) == { U64Add(A_MAX, d) : d \in deltas }

CallLengths(op, nonce, msg_len, aad_len) ==
    [op |-> op, nonce |-> nonce, aad |-> <<>>, msg |-> <<>>,
     aad_len |-> aad_len, msg_len |-> msg_len, written |-> FALSE]

\* Aead::encrypt on a plaintext or associated data near 2^36 bytes
EncryptNearMax(nonce, msg_len, aad_len) ==
    \E session \in {CipherNew(aead.variant, aead.key, nonce)} :
    \E r \in {EncryptLengths(msg_len, aad_len)} :
        /\ call' = CallLengths("encrypt", nonce, msg_len, aad_len)
        /\ res' = [ok |-> r.ok, out |-> <<>>, len |-> r.len]
        /\ buf' = <<>>
        /\ obs' = Obs(session, r.tag_start, [NoWork EXCEPT !.ops = r.ops])
        /\ repeat' = NoRepeat
        /\ UNCHANGED <<aead, lastEnc>>

\* Aead::decrypt on a combined input or associated data near 2^36 bytes
DecryptNearMax(nonce, msg_len, aad_len, tag_ok) ==
    \E session \in {CipherNew(aead.variant, aead.key, nonce)} :
    \E r \in {DecryptLengths(msg_len, aad_len, tag_ok)} :
        /\ call' = CallLengths("decrypt", nonce, msg_len, aad_len)
        /\ res' = [ok |-> r.ok, out |-> <<>>, len |-> r.len]
        /\ buf' = <<>>
        /\ obs' = Obs(session, r.tag_start, [NoWork EXCEPT !.ops = r.ops])
        /\ repeat' = NoRepeat
        /\ UNCHANGED <<aead, lastEnc>>

Next ==
    \/ \E object \in Objects : New(object)
    \/ \E nonce \in Nonces, aad \in Aads, msg \in Msgs : Encrypt(nonce, aad, msg)
    \/ \E nonce \in Nonces, aad \in Aads, msg \in Candidates :
          Decrypt(nonce, aad, msg)
    \/ \E nonce \in NearMaxNonces, msg_len \in NearMax({-1, 0, 1}),
          aad_len \in NearMax({0, 1}) :
          EncryptNearMax(nonce, msg_len, aad_len)
    \/ \E nonce \in NearMaxNonces,
          msg_len \in NearMax({tag_size, tag_size + 1, 2 * tag_size, 2 * tag_size + 1}),
          aad_len \in NearMax({0, 1}), tag_ok \in BOOLEAN :
          DecryptNearMax(nonce, msg_len, aad_len, tag_ok)

Spec == Init /\ [][Next]_vars

(***************************************************************************)
(* Properties.                                                             *)
(***************************************************************************)
\* the last call was a decrypt of written-out bytes that reached the split
Split == call.op = "decrypt" /\ call.written /\ obs.tag_start # <<>>
                             /\ obs.tag_start[1] >= 0

\* the ciphertext and the tag the caller supplied to that decrypt
SuppliedBuffer == Slice(call.msg, 0, Len(call.msg) - tag_size)

SuppliedTag == Slice(call.msg, Len(call.msg) - tag_size, Len(call.msg))

\* the last call was a decrypt of exactly what this object's last encrypt
\* returned, under the same nonce and associated data
RoundTripCase ==
    /\ call.op = "decrypt" /\ call.written /\ lastEnc.some
    /\ lastEnc.aead = aead /\ call.nonce = lastEnc.nonce
    /\ call.aad = lastEnc.aad /\ call.msg = lastEnc.out

\* C1: decrypt(k, n, aad, encrypt(k, n, aad, m)) succeeds and returns m.
C1_RoundTrip == RoundTripCase => res.ok /\ res.out = lastEnc.msg

C1_Witness ==
    /\ RoundTripCase /\ res.ok
    /\ Len(res.out) = MaxLen /\ Len(call.aad) > 0

\* C2: decrypt fails whenever ciphertext plus tag is longer than C_MAX or the
\* associated data is longer than 2^36 bytes, whatever the tag.
C2_OversizeRejected ==
    (call.op = "decrypt"
        /\ (U64Gt(call.msg_len, C_MAX) \/ U64Gt(call.aad_len, A_MAX)))
    => ~res.ok

\* C3: encrypt fails, returning nothing, exactly when the plaintext or the
\* associated data is longer than 2^36 bytes; 2^36 bytes itself is accepted.
C3_EncryptLimits ==
    call.op = "encrypt" =>
        LET limit == [hi |-> 4096, lo |-> 0]
            over  == U64Gt(call.msg_len, limit) \/ U64Gt(call.aad_len, limit)
        IN  /\ res.ok <=> ~over
            /\ over => /\ res.out = <<>> /\ res.len = U64(0)
                       /\ obs.ops = <<>>
            /\ res.ok => res.len = U64Add(call.msg_len, 16)

C3_Witness ==
    /\ call.op = "encrypt" /\ ~res.ok
    /\ call.msg_len = [hi |-> 4096, lo |-> 1]
    /\ call.aad_len = [hi |-> 4096, lo |-> 0]

\* C4: decrypt of fewer than 16 bytes fails before the split, before any CTR
\* pass and before any tag computation; the tag offset is never negative.
C4_ShortInput ==
    call.op = "decrypt" =>
        /\ U64Lt(call.msg_len, U64(16)) =>
              /\ ~res.ok /\ res.out = <<>>
              /\ obs.ops = <<>> /\ obs.tag_start = <<>>
        /\ (call.written /\ obs.tag_start # <<>>) =>
              /\ obs.tag_start[1] >= 0
              /\ obs.tag_start[1] = Len(call.msg) - 16

C4_Witness ==
    /\ call.op = "decrypt" /\ call.written /\ ~res.ok
    /\ Len(call.msg) = 15 /\ obs.ops = <<>>

\* the number of CTR passes the last call made
CtrPasses == Cardinality({i \in 1..Len(obs.ops) : obs.ops[i] = "ctr32le"})

\* C5: after a failed decrypt_in_place (size limit or tag mismatch) the
\* buffer holds what it held before the call, whatever its length.
C5_ScrubOnFailure ==
    (call.op = "decrypt" /\ ~res.ok) =>
        /\ CtrPasses \in {0, 2}
        /\ Split => buf = SuppliedBuffer

C5_Witness ==
    /\ Split /\ ~res.ok /\ CtrPasses = 2
    /\ Len(buf) = MaxLen /\ buf = SuppliedBuffer
    /\ obs.ctr[1].output # buf

\* C6: decrypt returns a plaintext only if the recomputed tag equals the
\* supplied tag in all 16 bytes; on a mismatch it fails and returns no byte.
C6_TagChecked ==
    Split =>
        /\ res.ok => /\ Len(obs.expected_tag) = 16
                     /\ \A i \in 1..16 : obs.expected_tag[i] = SuppliedTag[i]
        /\ (Len(obs.expected_tag) = 16
              /\ \E i \in 1..16 : obs.expected_tag[i] # SuppliedTag[i])
           => ~res.ok /\ res.out = <<>> /\ res.len = U64(0)

C6_Witness ==
    /\ Split /\ ~res.ok /\ Len(obs.expected_tag) = 16
    /\ \A i \in 1..15 : obs.expected_tag[i] = SuppliedTag[i]
    /\ obs.expected_tag[16] # SuppliedTag[16]

KgkBlock(c) == <<c, 0, 0, 0>> \o call.nonce

\* the first 8 bytes of that block encrypted under the object's key
KgkHalf(c) == SubSeq(AesEncryptBlock(aead.key, KgkBlock(c)), 1, 8)

\* C8: the MAC subkey is built from counters 0,1 and the encryption subkey
\* from counters 2,3 (AES-128) or 2,3,4,5 (AES-256), each block being
\* counter || nonce encrypted under the key, of which 8 bytes are kept.
C8_SubkeyDerivation ==
    call.op # "new" =>
        /\ obs.mac_key = KgkHalf(0) \o KgkHalf(1)
        /\ aead.variant = "Aes128" =>
              /\ obs.enc_cipher = KgkHalf(2) \o KgkHalf(3)
              /\ obs.kgk_blocks = <<KgkBlock(0), KgkBlock(1), KgkBlock(2),
                                    KgkBlock(3)>>
        /\ aead.variant = "Aes256" =>
              /\ obs.enc_cipher = KgkHalf(2) \o KgkHalf(3) \o KgkHalf(4)
                                  \o KgkHalf(5)
              /\ obs.kgk_blocks = <<KgkBlock(0), KgkBlock(1), KgkBlock(2),
                                    KgkBlock(3), KgkBlock(4), KgkBlock(5)>>

C8_Witness ==
    /\ call.op = "encrypt" /\ aead.variant = "Aes256"
    /\ Len(obs.kgk_blocks) = 6 /\ Len(obs.enc_cipher) = 32
    /\ Len(obs.mac_key) = 16

\* the counter block of chunk i (from 0) of a pass started from block cb
CounterBlockAt(cb, i) ==
    LET low24 == cb[1] + 256 * cb[2] + 65536 * cb[3] + i
    IN  << low24 % 256, (low24 \div 256) % 256, (low24 \div 65536) % 256,
           (cb[4] + (low24 \div 16777216)) % 256 >>
        \o SubSeq(cb, 5, 15)
        \o << IF cb[16] < 128 THEN cb[16] + 128 ELSE cb[16] >>

\* C9: chunk i of a CTR pass uses the input block with the top bit of byte
\* 15 set and its first 4 bytes replaced by (their little-endian value + i)
\* mod 2^32; each chunk, the short last one included, is XORed with the
\* first bytes of its keystream block.
C9_Ctr32le ==
    \A p \in 1..Len(obs.ctr) :
        LET pass == obs.ctr[p]
            len  == Len(pass.input)
        IN  /\ Len(pass.output) = len
            /\ Len(pass.blocks) = (len + 15) \div 16
            /\ \A i \in 1..Len(pass.blocks) :
                  pass.blocks[i] = CounterBlockAt(pass.counter_block, i - 1)
            /\ \A j \in 1..len :
                  pass.output[j] =
                      XorByte(pass.input[j],
                              AesEncryptBlock(obs.enc_cipher,
                                  CounterBlockAt(pass.counter_block,
                                                 (j - 1) \div 16))[((j - 1) % 16) + 1])

C9_Witness ==
    \E p \in 1..Len(obs.ctr) :
        /\ SubSeq(obs.ctr[p].counter_block, 1, 4) = <<255, 255, 255, 255>>
        /\ Len(obs.ctr[p].input) = MaxLen
        /\ SubSeq(obs.ctr[p].blocks[2], 1, 4) = <<0, 0, 0, 0>>

\* every block ctr32le encrypted in the last call
CtrBlocks ==
    UNION { { obs.ctr[p].blocks[i] : i \in 1..Len(obs.ctr[p].blocks) } :
            p \in 1..Len(obs.ctr) }

\* every block compute_tag encrypted in the last call
TagBlocks == { obs.tag_in[i] : i \in 1..Len(obs.tag_in) }

\* C10: the block compute_tag encrypts has the top bit of byte 15 clear and
\* every block ctr32le encrypts has it set, so the two never coincide.
C10_DomainSeparation ==
    /\ \A b \in TagBlocks : b[16] < 128
    /\ \A b \in CtrBlocks : b[16] >= 128
    /\ TagBlocks \cap CtrBlocks = {}

C10_Witness ==
    /\ Split /\ SuppliedTag[16] < 128
    /\ TagBlocks # {} /\ Cardinality(CtrBlocks) >= 3

====
